---- MODULE Spec2Model ----
(***************************************************************************)
(* Model of src/python.py: the capital-budgeting kernel (calculate_npv,    *)
(* calculate_irr, calculate_payback_periods, the schedule built in main),  *)
(* the retry loop fetch_with_retry and the extraction handler of main.     *)
(*                                                                         *)
(* Numbers.  Python floats are modelled as exact rationals <<n, d>> in     *)
(* lowest terms with d > 0; rounding of sums and quotients is not          *)
(* modelled.  The one place where the finiteness of the float format       *)
(* decides the outcome is the bisection of calculate_irr: there the rates  *)
(* live on a binary grid of step 2^-RateBits and the midpoint is rounded   *)
(* to the grid, ties to even, as IEEE-754 does.                            *)
(*                                                                         *)
(* Range.  Python raises OverflowError when (1 + rate) ** t leaves the     *)
(* range of a double (2^1024).  The model keeps a range of 2^FloatMaxExp   *)
(* for that power.  No sequence of at most MaxYears + 1 periods reaches    *)
(* it at a rate of at most 1, so only calculate_irr over its long          *)
(* sequences (SpecIRR) meets the exception.                                *)
(*                                                                         *)
(* Specifications.  SpecPayback, SpecIRR and SpecFetch run one function    *)
(* over free arguments; SpecMain runs the computation of main (schedule,   *)
(* NPV, IRR, payback periods) over parameter records the input widgets     *)
(* admit; SpecSchedule runs the schedule and the NPV over the seed         *)
(* scenario of the specification and its variants; SpecApp runs the        *)
(* extraction handler of main with uploads, edits and extractions.         *)
(***************************************************************************)
EXTENDS Integers, Sequences, FiniteSets, TLC

\* ------------------------------------------------------------------------
\* Bounds of the model
\* ------------------------------------------------------------------------
MaxInvest == 2          \* initial-investment magnitudes 0..MaxInvest
MaxYears == 3           \* operating years of a free cash-flow sequence
MaxFlow == 3            \* yearly flows of a free sequence are -1..MaxFlow

\* ------------------------------------------------------------------------
\* Rational arithmetic standing for Python's float operators
\* ------------------------------------------------------------------------
AbsInt(x) == IF x < 0 THEN -x ELSE x

RECURSIVE Gcd(_, _)
Gcd(a, b) == IF b = 0 THEN a ELSE Gcd(b, a % b)

Rat(n, d) ==
    LET g == Gcd(AbsInt(n), AbsInt(d))
        s == IF d < 0 THEN -1 ELSE 1
    IN  << (s * n) \div g, (s * d) \div g >>

FromInt(n) == << n, 1 >>

Zero == FromInt(0)

RNeg(x) == << -x[1], x[2] >>

RAbs(x) == << AbsInt(x[1]), x[2] >>

RAdd(x, y) ==
    LET g == Gcd(x[2], y[2])
        l == (x[2] \div g) * y[2]
    IN  Rat(x[1] * (l \div x[2]) + y[1] * (l \div y[2]), l)

RSub(x, y) == RAdd(x, RNeg(y))

RMul(x, y) ==
    LET a == Rat(x[1], y[2])
        b == Rat(y[1], x[2])
    IN  << a[1] * b[1], a[2] * b[2] >>

\* x / y for y # 0 (the callers guard the ZeroDivisionError case)
RDiv(x, y) ==
    IF y[1] < 0 THEN RMul(x, << -y[2], -y[1] >>) ELSE RMul(x, << y[2], y[1] >>)

RECURSIVE RPow(_, _)
RPow(x, k) == IF k = 0 THEN FromInt(1) ELSE RMul(x, RPow(x, k - 1))

\* a/b < c/d for b, d > 0, by continued fractions (no products formed)
RECURSIVE FracLt(_, _, _, _)
FracLt(a, b, c, d) ==
    LET qa == a \div b
        qc == c \div d
        ra == a % b
        rc == c % d
    IN  IF qa # qc THEN qa < qc
        ELSE IF rc = 0 THEN FALSE
        ELSE IF ra = 0 THEN TRUE
        ELSE FracLt(d, rc, b, ra)

RLt(x, y) == FracLt(x[1], x[2], y[1], y[2])

RLe(x, y) == ~RLt(y, x)

RFloor(x) == x[1] \div x[2]

RCeil(x) == -((-x[1]) \div x[2])

\* ------------------------------------------------------------------------
\* State
\* ------------------------------------------------------------------------
VARIABLES
    \* calculate_payback_periods: arguments, loop index and locals
    pb_pc, initial_investment, cash_flows_operating, wacc, t,
    cumulative_cf, payback_period, cumulative_dcf, discounted_payback_period,
    \* history: <<year, value>> of the first recording of each period, <<>> before
    first_pp, first_dpp,
    \* calculate_irr: argument, bisection bounds, loop counter, returned value
    \* and the return statement that produced it
    irr_pc, cash_flows, low_rate, high_rate, iter, irr_result, irr_return,
    \* main, the computation of one run: the parameter record, the schedule,
    \* the net cash flows, the loop variable and st.session_state['kpis']
    main_pc, data, cash_flow_table, cash_flows_for_npv_irr, year, kpis,
    \* fetch_with_retry: argument, loop variable, returned value, the seconds
    \* slept so far, the exception reported through st.error ("" when none),
    \* and the history of the outcomes of the request attempts made
    fetch_pc, max_retries, attempt, fetch_result, sleeps, fetch_error, attempts,
    \* main, the extraction handler: the text of the uploaded file,
    \* st.session_state['extracted_data'], the values held by the six input
    \* widgets, and the message of the last run
    ui_pc, document_text, extracted_data, widgets, ui_message

pbVars == << pb_pc, initial_investment, cash_flows_operating, wacc, t,
             cumulative_cf, payback_period, cumulative_dcf,
             discounted_payback_period, first_pp, first_dpp >>

irrVars == << irr_pc, cash_flows, low_rate, high_rate, iter, irr_result, irr_return >>

mainVars == << main_pc, data, cash_flow_table, cash_flows_for_npv_irr, year, kpis >>

fetchVars == << fetch_pc, max_retries, attempt, fetch_result, sleeps, fetch_error,
                attempts >>

uiVars == << ui_pc, document_text, extracted_data, widgets, ui_message >>

vars == << pbVars, irrVars, mainVars, fetchVars, uiVars >>

\* ------------------------------------------------------------------------
\* calculate_npv
\* ------------------------------------------------------------------------
\* The sum over positions 1..k of flows[i] / (1 + rate) ** (i - 1); position
\* i of the sequence is Python's index t = i - 1.
RECURSIVE NpvUpTo(_, _, _)
NpvUpTo(rate, flows, k) ==
    IF k = 0 THEN Zero
    ELSE RAdd(NpvUpTo(rate, flows, k - 1),
              RDiv(flows[k], RPow(RAdd(FromInt(1), rate), k - 1)))

\* Mutant: the flow is multiplied by (1 + rate) ** t instead of divided by it.
RECURSIVE NpvCompounded(_, _, _)
NpvCompounded(rate, flows, k) ==
    IF k = 0 THEN Zero
    ELSE RAdd(NpvCompounded(rate, flows, k - 1),
              RMul(flows[k], RPow(RAdd(FromInt(1), rate), k - 1)))

calculate_npv_Compounds(rate, flows) == NpvCompounded(rate, flows, Len(flows))

calculate_npv(rate, flows) == NpvUpTo(rate, flows, Len(flows))

\* (1 + rate) ** t raises OverflowError when the power is not below the range
\* of a double; FloatMaxExp stands for sys.float_info.max_exp.
FloatMaxExp == 5

PowOverflows(base, k) == RLe(FromInt(2 ^ FloatMaxExp), RPow(base, k))

\* calculate_npv(rate, flows) raises instead of returning
calculate_npv_raises(rate, flows) ==
    \E i \in 1..Len(flows) : PowOverflows(RAdd(FromInt(1), rate), i - 1)

\* ------------------------------------------------------------------------
\* calculate_irr
\* ------------------------------------------------------------------------
MaxIterations == 100        \* for _ in range(100)
ToleranceInverse == 10000   \* abs(npv) < 0.0001
RateBits == 4               \* rates are multiples of 2^-RateBits

Tolerance == Rat(1, ToleranceInverse)

Grid == 2 ^ RateBits

\* (low + high) / 2 in float arithmetic: the exact midpoint when it is a float,
\* otherwise the neighbour with the even significand.
MidRate(low, high) ==
    LET a == low[1] * (Grid \div low[2])
        b == high[1] * (Grid \div high[2])
        m == (a + b) \div 2
    IN  IF (a + b) % 2 = 0 THEN Rat(m, Grid)
        ELSE IF m % 2 = 0 THEN Rat(m, Grid) ELSE Rat(m + 1, Grid)

\* Mutant: the negative-at-0% case returns the other sentinel.
IrrEntry_WrongSentinel(flows) ==
    IF flows = << >> \/ RLe(Zero, flows[1])
      THEN [return |-> "no_investment", value |-> Zero]
    ELSE IF RLt(calculate_npv(Zero, flows), Zero)
      THEN [return |-> "negative_at_zero", value |-> Zero]
    ELSE [return |-> "none", value |-> Zero]

\* The checks before the loop: which return statement is taken, if any.
IrrEntry(flows) ==
    IF flows = << >> \/ RLe(Zero, flows[1])
      THEN [return |-> "no_investment", value |-> Zero]
    ELSE IF RLt(calculate_npv(Zero, flows), Zero)
      THEN [return |-> "negative_at_zero", value |-> FromInt(-1)]
    ELSE [return |-> "none", value |-> Zero]

\* Mutant: at tolerance the low bound is returned instead of the midpoint.
Bisect_ReturnsLow(low, high, flows) ==
    LET mid_rate == MidRate(low, high)
        npv == calculate_npv(mid_rate, flows)
    IN  IF RLt(RAbs(npv), Tolerance)
          THEN [return |-> TRUE, value |-> low, low |-> low, high |-> high]
        ELSE IF RLt(Zero, npv)
          THEN [return |-> FALSE, value |-> Zero, low |-> mid_rate, high |-> high]
        ELSE [return |-> FALSE, value |-> Zero, low |-> low, high |-> mid_rate]

\* The body of the bisection loop
Bisect(low, high, flows) ==
    LET mid_rate == MidRate(low, high)
        npv == calculate_npv(mid_rate, flows)
    IN  IF RLt(RAbs(npv), Tolerance)
          THEN [return |-> TRUE, value |-> mid_rate, low |-> low, high |-> high]
        ELSE IF RLt(Zero, npv)
          THEN [return |-> FALSE, value |-> Zero, low |-> mid_rate, high |-> high]
        ELSE [return |-> FALSE, value |-> Zero, low |-> low, high |-> mid_rate]

IrrIdle ==
    /\ irr_pc = "idle"
    /\ cash_flows = << >>
    /\ low_rate = Zero
    /\ high_rate = Zero
    /\ iter = 0
    /\ irr_result = Zero
    /\ irr_return = "none"

\* The call, as the caller's step
IrrCall(flows) ==
    /\ irr_pc' = "entry"
    /\ cash_flows' = flows
    /\ low_rate' = Zero
    /\ high_rate' = Zero
    /\ iter' = 0
    /\ irr_result' = Zero
    /\ irr_return' = "none"

\* The call: the function is entered with its argument bound
IrrCalled(flows) ==
    /\ irr_pc = "entry"
    /\ cash_flows = flows
    /\ low_rate = Zero
    /\ high_rate = Zero
    /\ iter = 0
    /\ irr_result = Zero
    /\ irr_return = "none"

\* return 0.0: no flows, or no outflow at time 0
IrrNoInvestment ==
    /\ irr_pc = "entry"
    /\ IrrEntry(cash_flows).return = "no_investment"
    /\ irr_pc' = "done"
    /\ irr_result' = IrrEntry(cash_flows).value
    /\ irr_return' = "no_investment"
    /\ UNCHANGED << cash_flows, low_rate, high_rate, iter >>
    /\ UNCHANGED << pbVars, mainVars, fetchVars, uiVars >>

\* return -1.0: the NPV is negative even at 0%
IrrNegativeAtZero ==
    /\ irr_pc = "entry"
    /\ IrrEntry(cash_flows).return = "negative_at_zero"
    /\ irr_pc' = "done"
    /\ irr_result' = IrrEntry(cash_flows).value
    /\ irr_return' = "negative_at_zero"
    /\ low_rate' = Zero
    /\ high_rate' = FromInt(1)
    /\ UNCHANGED << cash_flows, iter >>
    /\ UNCHANGED << pbVars, mainVars, fetchVars, uiVars >>

\* low_rate, high_rate = 0.0, 1.0 and the loop is entered
IrrStartSearch ==
    /\ irr_pc = "entry"
    /\ IrrEntry(cash_flows).return = "none"
    /\ irr_pc' = "loop"
    /\ low_rate' = Zero
    /\ high_rate' = FromInt(1)
    /\ UNCHANGED << cash_flows, iter, irr_result, irr_return >>
    /\ UNCHANGED << pbVars, mainVars, fetchVars, uiVars >>

\* One iteration of the bisection loop
IrrIterate ==
    /\ irr_pc = "loop"
    /\ iter < MaxIterations
    /\ ~calculate_npv_raises(MidRate(low_rate, high_rate), cash_flows)
    /\ LET b == Bisect(low_rate, high_rate, cash_flows)
       IN  IF b.return
             THEN /\ irr_pc' = "done"
                  /\ irr_result' = b.value
                  /\ irr_return' = "tolerance"
                  /\ UNCHANGED << low_rate, high_rate >>
             ELSE /\ low_rate' = b.low
                  /\ high_rate' = b.high
                  /\ UNCHANGED << irr_pc, irr_result, irr_return >>
    /\ iter' = iter + 1
    /\ UNCHANGED cash_flows
    /\ UNCHANGED << pbVars, mainVars, fetchVars, uiVars >>

\* An iteration in which calculate_npv(mid_rate, cash_flows) raises: the
\* OverflowError is not caught and leaves calculate_irr
IrrRaised ==
    /\ irr_pc = "loop"
    /\ iter < MaxIterations
    /\ calculate_npv_raises(MidRate(low_rate, high_rate), cash_flows)
    /\ irr_pc' = "raised"
    /\ iter' = iter + 1
    /\ UNCHANGED << cash_flows, low_rate, high_rate, irr_result, irr_return >>
    /\ UNCHANGED << pbVars, mainVars, fetchVars, uiVars >>

\* The iterations are exhausted: return low_rate
IrrExhausted ==
    /\ irr_pc = "loop"
    /\ iter = MaxIterations
    /\ irr_pc' = "done"
    /\ irr_result' = low_rate
    /\ irr_return' = "exhausted"
    /\ UNCHANGED << cash_flows, low_rate, high_rate, iter >>
    /\ UNCHANGED << pbVars, mainVars, fetchVars, uiVars >>

\* ------------------------------------------------------------------------
\* calculate_payback_periods
\* ------------------------------------------------------------------------
\* Mutant: the crossing year is counted from t instead of t - 1.
PaybackUpdate_OffByOneYear(cumulative, period, yr, flow) ==
    IF period # Zero
      THEN [cumulative |-> cumulative, period |-> period,
            raised |-> FALSE, recorded |-> FALSE]
    ELSE IF RLe(Zero, RAdd(cumulative, flow))
      THEN IF flow = Zero
             THEN [cumulative |-> cumulative, period |-> period,
                   raised |-> TRUE, recorded |-> FALSE]
             ELSE [cumulative |-> cumulative,
                   period |-> RAdd(FromInt(yr), RDiv(RAbs(cumulative), flow)),
                   raised |-> FALSE, recorded |-> TRUE]
    ELSE [cumulative |-> RAdd(cumulative, flow), period |-> period,
          raised |-> FALSE, recorded |-> FALSE]

\* One branch of the loop body (the undiscounted and the discounted branch are
\* the same code on different variables): the period is computed only while it
\* still equals 0.0; at a crossing the fraction abs(cumulative) / flow is taken,
\* which raises ZeroDivisionError when flow is 0.
PaybackUpdate(cumulative, period, yr, flow) ==
    IF period # Zero
      THEN [cumulative |-> cumulative, period |-> period,
            raised |-> FALSE, recorded |-> FALSE]
    ELSE IF RLe(Zero, RAdd(cumulative, flow))
      THEN IF flow = Zero
             THEN [cumulative |-> cumulative, period |-> period,
                   raised |-> TRUE, recorded |-> FALSE]
             ELSE [cumulative |-> cumulative,
                   period |-> RAdd(FromInt(yr - 1), RDiv(RAbs(cumulative), flow)),
                   raised |-> FALSE, recorded |-> TRUE]
    ELSE [cumulative |-> RAdd(cumulative, flow), period |-> period,
          raised |-> FALSE, recorded |-> FALSE]

DiscountFactor(rate, yr) == RDiv(FromInt(1), RPow(RAdd(FromInt(1), rate), yr))

\* The state on entry to the loop
PaybackEntry(investment, flows, rate) ==
    /\ pb_pc' = "loop"
    /\ initial_investment' = investment
    /\ cash_flows_operating' = flows
    /\ wacc' = rate
    /\ t' = 0
    /\ cumulative_cf' = RNeg(investment)
    /\ payback_period' = Zero
    /\ cumulative_dcf' = RNeg(investment)
    /\ discounted_payback_period' = Zero
    /\ first_pp' = << >>
    /\ first_dpp' = << >>

PaybackIdle ==
    /\ pb_pc = "idle"
    /\ initial_investment = Zero
    /\ cash_flows_operating = << >>
    /\ wacc = Zero
    /\ t = 0
    /\ cumulative_cf = Zero
    /\ payback_period = Zero
    /\ cumulative_dcf = Zero
    /\ discounted_payback_period = Zero
    /\ first_pp = << >>
    /\ first_dpp = << >>

\* One iteration of the for loop
PaybackIterate ==
    /\ pb_pc = "loop"
    /\ t < Len(cash_flows_operating)
    /\ LET yr == t + 1
           cf == cash_flows_operating[yr]
           u == PaybackUpdate(cumulative_cf, payback_period, yr, cf)
           dcf == RMul(cf, DiscountFactor(wacc, yr))
           d == PaybackUpdate(cumulative_dcf, discounted_payback_period, yr, dcf)
       IN  IF u.raised \/ d.raised
             THEN /\ pb_pc' = "raised"
                  /\ UNCHANGED << initial_investment, cash_flows_operating, wacc, t,
                                  cumulative_cf, payback_period, cumulative_dcf,
                                  discounted_payback_period, first_pp, first_dpp >>
                  /\ UNCHANGED << irrVars, mainVars, fetchVars, uiVars >>
             ELSE /\ t' = yr
                  /\ cumulative_cf' = u.cumulative
                  /\ payback_period' = u.period
                  /\ cumulative_dcf' = d.cumulative
                  /\ discounted_payback_period' = d.period
                  /\ first_pp' = IF u.recorded /\ first_pp = << >>
                                   THEN << yr, u.period >> ELSE first_pp
                  /\ first_dpp' = IF d.recorded /\ first_dpp = << >>
                                    THEN << yr, d.period >> ELSE first_dpp
                  /\ UNCHANGED << pb_pc, initial_investment, cash_flows_operating, wacc >>
                  /\ UNCHANGED << irrVars, mainVars, fetchVars, uiVars >>

\* The loop is exhausted: return payback_period, discounted_payback_period
PaybackReturn ==
    /\ pb_pc = "loop"
    /\ t = Len(cash_flows_operating)
    /\ pb_pc' = "done"
    /\ UNCHANGED << initial_investment, cash_flows_operating, wacc, t,
                    cumulative_cf, payback_period, cumulative_dcf,
                    discounted_payback_period, first_pp, first_dpp >>
    /\ UNCHANGED << irrVars, mainVars, fetchVars, uiVars >>

\* ------------------------------------------------------------------------
\* main: the schedule and the four indicators
\* ------------------------------------------------------------------------
NoKpis == [npv |-> Zero, irr |-> Zero, pp |-> Zero, dpp |-> Zero]

NoData == [InitialInvestment |-> Zero, ProjectLifeYears |-> 0,
           AnnualRevenue |-> Zero, AnnualCost |-> Zero,
           WACC |-> Zero, TaxRate |-> Zero]

EBITOf(d) == RSub(d.AnnualRevenue, d.AnnualCost)

TaxOf(d) == IF RLt(Zero, EBITOf(d)) THEN RMul(EBITOf(d), d.TaxRate) ELSE Zero

OCFOf(d) == RSub(EBITOf(d), TaxOf(d))

\* The row of year 0
InvestmentPeriod(d) ==
    [Year |-> 0, Revenue |-> Zero, OperatingCost |-> Zero, EBIT |-> Zero,
     Tax |-> Zero, OCF |-> Zero,
     Investment |-> d.InitialInvestment,
     NetCashFlow |-> d.InitialInvestment,
     DiscountFactor |-> FromInt(1),
     DiscountedCashFlow |-> d.InitialInvestment]

\* The row of an operating year
OperatingPeriod(d, y) ==
    [Year |-> y, Revenue |-> d.AnnualRevenue, OperatingCost |-> d.AnnualCost,
     EBIT |-> EBITOf(d), Tax |-> TaxOf(d), OCF |-> OCFOf(d),
     Investment |-> Zero,
     NetCashFlow |-> OCFOf(d),
     DiscountFactor |-> DiscountFactor(d.WACC, y),
     DiscountedCashFlow |-> RMul(OCFOf(d), DiscountFactor(d.WACC, y))]

\* Mutant: the loop stops one year early, range(1, N).
YearInRange_StopsEarly(y, N) == y < N

\* for year in range(1, N + 1)
YearInRange(y, N) == y <= N

MainIdle ==
    /\ main_pc = "idle"
    /\ data = NoData
    /\ cash_flow_table = << >>
    /\ cash_flows_for_npv_irr = << >>
    /\ year = 0
    /\ kpis = NoKpis

\* A run of main has read the parameter record d
MainStarted(d) ==
    /\ main_pc = "start"
    /\ data = d
    /\ cash_flow_table = << >>
    /\ cash_flows_for_npv_irr = << >>
    /\ year = 0
    /\ kpis = NoKpis

\* The row of year 0 is appended and the loop is entered
MainAppendInvestment ==
    /\ main_pc = "start"
    /\ main_pc' = "years"
    /\ cash_flow_table' = << InvestmentPeriod(data) >>
    /\ cash_flows_for_npv_irr' = << data.InitialInvestment >>
    /\ year' = 1
    /\ UNCHANGED << data, kpis >>
    /\ UNCHANGED << pbVars, irrVars, fetchVars, uiVars >>

\* One iteration of the loop over the operating years
MainAppendYear ==
    /\ main_pc = "years"
    /\ YearInRange(year, data.ProjectLifeYears)
    /\ cash_flow_table' = Append(cash_flow_table, OperatingPeriod(data, year))
    /\ cash_flows_for_npv_irr' = Append(cash_flows_for_npv_irr, OCFOf(data))
    /\ year' = year + 1
    /\ UNCHANGED << main_pc, data, kpis >>
    /\ UNCHANGED << pbVars, irrVars, fetchVars, uiVars >>

\* npv = calculate_npv(WACC, cash_flows_for_npv_irr)
MainComputeNpv ==
    /\ main_pc = "years"
    /\ ~YearInRange(year, data.ProjectLifeYears)
    /\ main_pc' = "npv"
    /\ kpis' = [kpis EXCEPT !.npv = calculate_npv(data.WACC, cash_flows_for_npv_irr)]
    /\ UNCHANGED << data, cash_flow_table, cash_flows_for_npv_irr, year >>
    /\ UNCHANGED << pbVars, irrVars, fetchVars, uiVars >>

\* irr = calculate_irr(cash_flows_for_npv_irr): the call
MainCallIrr ==
    /\ main_pc = "npv"
    /\ main_pc' = "irr"
    /\ IrrCall(cash_flows_for_npv_irr)
    /\ UNCHANGED << data, cash_flow_table, cash_flows_for_npv_irr, year, kpis >>
    /\ UNCHANGED << pbVars, fetchVars, uiVars >>

\* calculate_irr has returned;
\* calculate_payback_periods(abs(C0), cash_flows_for_npv_irr[1:], WACC): the call
MainCallPayback ==
    /\ main_pc = "irr"
    /\ irr_pc = "done"
    /\ main_pc' = "payback"
    /\ kpis' = [kpis EXCEPT !.irr = irr_result]
    /\ PaybackEntry(RAbs(data.InitialInvestment), Tail(cash_flows_for_npv_irr), data.WACC)
    /\ UNCHANGED << data, cash_flow_table, cash_flows_for_npv_irr, year >>
    /\ UNCHANGED << irrVars, fetchVars, uiVars >>

\* calculate_payback_periods has returned: the indicators are stored
MainStoreKpis ==
    /\ main_pc = "payback"
    /\ pb_pc = "done"
    /\ main_pc' = "done"
    /\ kpis' = [kpis EXCEPT !.pp = payback_period, !.dpp = discounted_payback_period]
    /\ UNCHANGED << data, cash_flow_table, cash_flows_for_npv_irr, year >>
    /\ UNCHANGED << pbVars, irrVars, fetchVars, uiVars >>

\* calculate_payback_periods has raised: the exception leaves main
MainRaised ==
    /\ main_pc = "payback"
    /\ pb_pc = "raised"
    /\ main_pc' = "raised"
    /\ UNCHANGED << data, cash_flow_table, cash_flows_for_npv_irr, year, kpis >>
    /\ UNCHANGED << pbVars, irrVars, fetchVars, uiVars >>

\* ------------------------------------------------------------------------
\* fetch_with_retry
\* ------------------------------------------------------------------------
DefaultMaxRetries == 5      \* max_retries: int = 5
MaxRetriesArg == 6          \* max_retries of a free call is 0..MaxRetriesArg

None == [kind |-> "None"]

\* What response.json() can hand back, by what ai_extract_data makes of it:
\* a falsy object, an object without candidates, candidates whose text is
\* missing or is not JSON, candidates whose text is JSON for a falsy value,
\* and candidates whose text is JSON for a parameter record.
ExtractableRecords ==
    [InitialInvestment : { FromInt(-2), Zero },
     ProjectLifeYears : { 2 },
     AnnualRevenue : { FromInt(3) },
     AnnualCost : { FromInt(1) },
     WACC : { Rat(1, 10) },
     TaxRate : { Rat(1, 5) }]

Responses ==
    { [kind |-> k] : k \in { "falsy", "no_candidates", "malformed", "falsy_json" } }
        \cup { [kind |-> "record", record |-> r] : r \in ExtractableRecords }

\* What the try block can raise: the request, raise_for_status, response.json()
Exceptions == { "ConnectionError", "HTTPError", "JSONDecodeError" }

\* sleep_time = 2 ** attempt
SleepTime(n) == 2 ^ n

\* Mutant: the last failure is told by attempt < max_retries, so it sleeps too.
AnotherAttemptRemains_OffByOne(n, limit) == n < limit

\* if attempt < max_retries - 1
AnotherAttemptRemains(n, limit) == n < limit - 1

FetchIdle ==
    /\ fetch_pc = "idle"
    /\ max_retries = 0
    /\ attempt = 0
    /\ fetch_result = None
    /\ sleeps = << >>
    /\ fetch_error = ""
    /\ attempts = << >>

\* The call, as the caller's step
FetchCall(limit) ==
    /\ fetch_pc' = "loop"
    /\ max_retries' = limit
    /\ attempt' = 0
    /\ fetch_result' = None
    /\ sleeps' = << >>
    /\ fetch_error' = ""
    /\ attempts' = << >>

\* The call: the function is entered with max_retries bound
FetchCalled(limit) ==
    /\ fetch_pc = "loop"
    /\ max_retries = limit
    /\ attempt = 0
    /\ fetch_result = None
    /\ sleeps = << >>
    /\ fetch_error = ""
    /\ attempts = << >>

\* An attempt whose request, status check and decoding succeed: return
FetchAttemptSucceeds ==
    /\ fetch_pc = "loop"
    /\ attempt < max_retries
    /\ \E response \in Responses :
        /\ fetch_result' = response
        /\ attempts' = Append(attempts, response)
    /\ fetch_pc' = "returned"
    /\ UNCHANGED << max_retries, attempt, sleeps, fetch_error >>
    /\ UNCHANGED << pbVars, irrVars, mainVars, uiVars >>

\* An attempt that raises: sleep and go on, or report and return None
FetchAttemptFails ==
    /\ fetch_pc = "loop"
    /\ attempt < max_retries
    /\ \E e \in Exceptions :
        /\ attempts' = Append(attempts, [kind |-> "raised", exception |-> e])
        /\ IF AnotherAttemptRemains(attempt, max_retries)
             THEN /\ sleeps' = Append(sleeps, SleepTime(attempt))
                  /\ attempt' = attempt + 1
                  /\ UNCHANGED << fetch_pc, fetch_result, fetch_error >>
             ELSE /\ fetch_error' = e
                  /\ fetch_result' = None
                  /\ fetch_pc' = "returned"
                  /\ UNCHANGED << attempt, sleeps >>
    /\ UNCHANGED max_retries
    /\ UNCHANGED << pbVars, irrVars, mainVars, uiVars >>

\* The loop ends without an attempt having returned: return None
FetchLoopEnds ==
    /\ fetch_pc = "loop"
    /\ ~(attempt < max_retries)
    /\ fetch_result' = None
    /\ fetch_pc' = "returned"
    /\ UNCHANGED << max_retries, attempt, sleeps, fetch_error, attempts >>
    /\ UNCHANGED << pbVars, irrVars, mainVars, uiVars >>

\* ------------------------------------------------------------------------
\* ai_extract_data and the extraction handler of main
\* ------------------------------------------------------------------------
Absent == [kind |-> "absent"]

Unreadable == "unreadable"      \* the placeholder stored when decoding fails

\* What ai_extract_data returns for the result of fetch_with_retry
ai_extract_data(result) ==
    IF result.kind \in { "None", "falsy", "no_candidates" } THEN None
    ELSE IF result.kind = "malformed" THEN None
    ELSE IF result.kind = "falsy_json" THEN [kind |-> "falsy_json"]
    ELSE result.record

Truthy(value) == value # None /\ value # [kind |-> "falsy_json"]

\* Mutant: the result of the extraction is stored without the truth test.
StoreExtracted_Unconditional(stored, extracted) ==
    IF Truthy(extracted) THEN extracted ELSE Absent

\* if extracted_data: st.session_state['extracted_data'] = extracted_data
StoreExtracted(stored, extracted) ==
    IF Truthy(extracted) THEN extracted ELSE stored

\* The six number inputs and the write back of their values: a widget that
\* holds a value returns it, a widget rendered for the first time returns the
\* value it is given.  After a new extraction the framework either keeps the
\* widgets' values or renders them anew from the new record (this depends on
\* how the framework identifies a widget, not on the code).
RenderedWidgets(stored, held, fresh) ==
    IF stored = Absent THEN { held }
    ELSE IF held = Absent THEN { stored }
    ELSE IF fresh THEN { held, stored }
    ELSE { held }

UiIdle ==
    /\ ui_pc = "idle"
    /\ document_text = ""
    /\ extracted_data = Absent
    /\ widgets = Absent
    /\ ui_message = "none"

\* The rest of a run: the widgets are rendered and their values written back
Rerun(stored, held, fresh) ==
    \E w \in RenderedWidgets(stored, held, fresh) :
        /\ widgets' = w
        /\ extracted_data' = IF stored = Absent THEN Absent ELSE w

\* A file is uploaded (or removed) and the script runs again
UploadFile ==
    /\ ui_pc = "idle"
    /\ \E text \in { "", Unreadable, "text" } :
        /\ text # document_text
        /\ document_text' = text
    /\ ui_message' = "none"
    /\ Rerun(extracted_data, widgets, FALSE)
    /\ UNCHANGED ui_pc
    /\ UNCHANGED << pbVars, irrVars, mainVars, fetchVars >>

\* The user changes an input widget and the script runs again
EditParameter ==
    /\ ui_pc = "idle"
    /\ widgets # Absent
    /\ \E investment \in { FromInt(-1), FromInt(-2) }, life \in 1..2 :
        LET edited == [widgets EXCEPT !.InitialInvestment = investment,
                                      !.ProjectLifeYears = life]
        IN  /\ edited # widgets
            /\ Rerun(extracted_data, edited, FALSE)
    /\ ui_message' = "none"
    /\ UNCHANGED << ui_pc, document_text >>
    /\ UNCHANGED << pbVars, irrVars, mainVars, fetchVars >>

\* The button is pressed without a readable text: a warning
PressExtractWithoutText ==
    /\ ui_pc = "idle"
    /\ document_text \in { "", Unreadable }
    /\ ui_message' = "warning"
    /\ Rerun(extracted_data, widgets, FALSE)
    /\ UNCHANGED << ui_pc, document_text >>
    /\ UNCHANGED << pbVars, irrVars, mainVars, fetchVars >>

\* The button is pressed with a readable text: ai_extract_data calls
\* fetch_with_retry(payload)
PressExtract ==
    /\ ui_pc = "idle"
    /\ document_text \notin { "", Unreadable }
    /\ ui_pc' = "extracting"
    /\ ui_message' = "none"
    /\ FetchCall(DefaultMaxRetries)
    /\ UNCHANGED << document_text, extracted_data, widgets >>
    /\ UNCHANGED << pbVars, irrVars, mainVars >>

\* fetch_with_retry has returned: ai_extract_data returns, the result is
\* stored or the error shown, and the rest of the run follows
ExtractReturns ==
    /\ ui_pc = "extracting"
    /\ fetch_pc = "returned"
    /\ LET extracted == ai_extract_data(fetch_result)
           stored == StoreExtracted(extracted_data, extracted)
       IN  /\ ui_message' = IF Truthy(extracted) THEN "success" ELSE "error"
           /\ Rerun(stored, widgets, Truthy(extracted))
    /\ ui_pc' = "idle"
    /\ fetch_pc' = "idle"
    /\ UNCHANGED << document_text, max_retries, attempt, fetch_result, sleeps,
                    fetch_error, attempts >>
    /\ UNCHANGED << pbVars, irrVars, mainVars >>

\* ------------------------------------------------------------------------
\* Specification of calculate_payback_periods over free arguments
\* ------------------------------------------------------------------------
FlowVals == { FromInt(v) : v \in (-1)..MaxFlow }

RECURSIVE SeqsUpTo(_, _)
SeqsUpTo(S, n) ==
    IF n = 0 THEN { << >> }
    ELSE LET shorter == SeqsUpTo(S, n - 1)
         IN  shorter \cup { Append(s, x) : s \in { q \in shorter : Len(q) = n - 1 }, x \in S }

WaccVals == { Zero, Rat(1, 10), Rat(1, 2), FromInt(1) }

InitPayback ==
    \E inv \in 0..MaxInvest, flows \in SeqsUpTo(FlowVals, MaxYears) \ { << >> },
       rate \in WaccVals :
        /\ pb_pc = "loop"
        /\ initial_investment = FromInt(inv)
        /\ cash_flows_operating = flows
        /\ wacc = rate
        /\ t = 0
        /\ cumulative_cf = RNeg(FromInt(inv))
        /\ payback_period = Zero
        /\ cumulative_dcf = RNeg(FromInt(inv))
        /\ discounted_payback_period = Zero
        /\ first_pp = << >>
        /\ first_dpp = << >>
        /\ IrrIdle
        /\ MainIdle
        /\ FetchIdle
        /\ UiIdle

NextPayback == PaybackIterate \/ PaybackReturn

SpecPayback == InitPayback /\ [][NextPayback]_vars

\* Cumulative undiscounted flow through year k, starting from minus the
\* initial investment
RECURSIVE CumulativeThrough(_)
CumulativeThrough(k) ==
    IF k = 0 THEN RNeg(initial_investment)
    ELSE RAdd(CumulativeThrough(k - 1), cash_flows_operating[k])

\* C1 (as claimed): whenever wacc > 0, the discounted payback period returned
\* is greater than or equal to the undiscounted payback period returned.
C1_DiscountedNotEarlier ==
    (pb_pc = "done" /\ RLt(Zero, wacc))
        => RLe(payback_period, discounted_payback_period)

\* C4 (as claimed): whenever an undiscounted payback period p is recorded, the
\* cumulative flow through year floor(p) is strictly negative and the
\* cumulative flow through year ceil(p) is non-negative.
C4_FloorCeil ==
    (pb_pc = "done" /\ payback_period # Zero)
        => /\ RLt(CumulativeThrough(RFloor(payback_period)), Zero)
           /\ RLe(Zero, CumulativeThrough(RCeil(payback_period)))

\* C4 (amended): whenever a non-zero undiscounted payback period p is held,
\* the cumulative flow through year ceil(p) is non-negative and, for an
\* initial investment > 0, the cumulative flow through year ceil(p) - 1 is
\* strictly negative (ceil(p) - 1 is floor(p) unless p is a whole number).
C4_CrossingYear ==
    payback_period # Zero
        => /\ RCeil(payback_period) \in 1..Len(cash_flows_operating)
           /\ RLe(Zero, CumulativeThrough(RCeil(payback_period)))
           /\ RLt(Zero, initial_investment)
                => RLt(CumulativeThrough(RCeil(payback_period) - 1), Zero)

\* C4 witness: a run that returned a fractional payback period in a year
\* before the last, for a positive investment.
C4_Witness ==
    /\ pb_pc = "done"
    /\ RLt(Zero, initial_investment)
    /\ payback_period[2] # 1
    /\ RCeil(payback_period) < Len(cash_flows_operating)

\* C8 (as claimed): the value returned for each period is the one computed at
\* the first year in which the running cumulative plus the flow is >= 0.
C8_FirstCrossingWins ==
    pb_pc = "done"
        => /\ first_pp # << >> => payback_period = first_pp[2]
           /\ first_dpp # << >> => discounted_payback_period = first_dpp[2]

\* ------------------------------------------------------------------------
\* Specification of calculate_irr over free arguments
\* ------------------------------------------------------------------------
IrrFlowVals == { FromInt(v) : v \in (-MaxInvest - 2)..(MaxFlow + 2) }

\* Long sequences, of the shape main builds (an outflow, then a constant
\* flow): at period 2 * FloatMaxExp the power 1.5 ** t is out of range.
LongFlows ==
    { << FromInt(-c) >> \o [ i \in 1..(2 * FloatMaxExp) |-> FromInt(f) ] :
        c \in 1..MaxInvest, f \in 0..MaxFlow }

InitIRR ==
    /\ \E flows \in SeqsUpTo(IrrFlowVals, MaxYears) \cup LongFlows : IrrCalled(flows)
    /\ PaybackIdle
    /\ MainIdle
    /\ FetchIdle
    /\ UiIdle

NextIRR ==
    \/ IrrNoInvestment
    \/ IrrNegativeAtZero
    \/ IrrStartSearch
    \/ IrrIterate
    \/ IrrRaised
    \/ IrrExhausted

SpecIRR == InitIRR /\ [][NextIRR]_vars

\* C2 (as claimed): a returned rate strictly between 0 and 1 has an NPV of
\* magnitude below 1e-3, whether returned at tolerance or as the last low bound.
C2_ReturnedRateWithinTolerance ==
    (irr_pc = "done" /\ RLt(Zero, irr_result) /\ RLt(irr_result, FromInt(1)))
        => RLt(RAbs(calculate_npv(irr_result, cash_flows)), Rat(1, 1000))

\* C2 (amended): a rate strictly between 0 and 1 returned at tolerance has an
\* NPV of magnitude below 1e-4 (hence below 1e-3); one returned as the last low
\* bound after the iterations are exhausted has an NPV of at least 1e-4, with
\* no upper bound.
C2_ToleranceOnlyAtEarlyReturn ==
    (irr_pc = "done" /\ RLt(Zero, irr_result) /\ RLt(irr_result, FromInt(1)))
        => /\ irr_return \in { "tolerance", "exhausted" }
           /\ irr_return = "tolerance"
                => RLt(RAbs(calculate_npv(irr_result, cash_flows)), Tolerance)
           /\ irr_return = "exhausted"
                => RLe(Tolerance, calculate_npv(irr_result, cash_flows))

\* C2 witness: a rate strictly between 0 and 1 returned at tolerance after
\* more than one iteration.
C2_Witness ==
    /\ irr_pc = "done"
    /\ irr_return = "tolerance"
    /\ iter > 1
    /\ RLt(Zero, irr_result)
    /\ RLt(irr_result, FromInt(1))

\* C3 (as claimed): every sequence whose undiscounted sum is negative yields -1.
C3_NegativeSumYieldsMinusOne ==
    (irr_pc = "done" /\ RLt(calculate_npv(Zero, cash_flows), Zero))
        => irr_result = FromInt(-1)

\* C3 (amended): every sequence whose first element is negative and whose
\* undiscounted sum is negative yields -1.
C3_OutflowAndNegativeSumYieldMinusOne ==
    (/\ irr_pc = "done"
     /\ cash_flows # << >>
     /\ RLt(cash_flows[1], Zero)
     /\ RLt(calculate_npv(Zero, cash_flows), Zero))
        => irr_result = FromInt(-1)

\* C3 witness: a call that returned through the negative-at-0% check although
\* a later flow was positive.
C3_Witness ==
    /\ irr_pc = "done"
    /\ irr_return = "negative_at_zero"
    /\ \E i \in 2..Len(cash_flows) : RLt(Zero, cash_flows[i])

\* The interval of the search: 0 <= low <= high <= 1
UnitInterval(low, high) ==
    /\ RLe(Zero, low)
    /\ RLe(low, high)
    /\ RLe(high, FromInt(1))

\* The values a return of calculate_irr may have: the sentinel -1 or [0, 1]
SentinelOrUnit(r) == r = FromInt(-1) \/ UnitInterval(r, r)

\* C11 (as claimed): calculate_irr always ends by returning, after at most 100
\* bisection iterations, the sentinel -1 or a value in [0, 1], and throughout
\* the loop 0 <= low <= high <= 1.
C11_AlwaysReturnsInRange ==
    /\ irr_pc # "raised"
    /\ iter <= MaxIterations
    /\ irr_pc = "loop" => UnitInterval(low_rate, high_rate)
    /\ irr_pc = "done" => SentinelOrUnit(irr_result)

\* What holds of C11 on every call, raising or not: at most 100 iterations,
\* the interval of the loop, and the range of a returned value.
C11_BoundsWhileRunning ==
    /\ iter <= MaxIterations
    /\ irr_pc \in { "loop", "raised" } => UnitInterval(low_rate, high_rate)
    /\ irr_pc = "done" => SentinelOrUnit(irr_result)

\* What holds of C11 on every step of the loop: low moves only to the
\* midpoint, when the NPV there is positive; high moves only to the midpoint,
\* when the NPV there is not positive.
C11_BoundsMoveBySign ==
    [][ irr_pc = "loop" =>
          /\ low_rate' # low_rate =>
               /\ low_rate' = MidRate(low_rate, high_rate)
               /\ RLt(Zero, calculate_npv(low_rate', cash_flows))
          /\ high_rate' # high_rate =>
               /\ high_rate' = MidRate(low_rate, high_rate)
               /\ RLe(calculate_npv(high_rate', cash_flows), Zero) ]_vars

\* A call on a long sequence ended by the exception in its first iteration
C11_RaisedInLoop ==
    /\ irr_pc = "raised"
    /\ iter = 1
    /\ Len(cash_flows) = 2 * FloatMaxExp + 1

\* ------------------------------------------------------------------------
\* Specification of one run of main over parameter records that satisfy the
\* constraints of the input widgets
\* ------------------------------------------------------------------------
TaxVals == { Zero, Rat(1, 5), FromInt(1) }

ParameterRecords ==
    [InitialInvestment : { FromInt(-v) : v \in 0..MaxInvest },
     ProjectLifeYears : 1..MaxYears,
     AnnualRevenue : { FromInt(v) : v \in 0..MaxFlow },
     AnnualCost : { FromInt(v) : v \in 0..1 },
     WACC : WaccVals \ { Zero },
     TaxRate : TaxVals]

InitMain ==
    /\ \E d \in ParameterRecords : MainStarted(d)
    /\ IrrIdle
    /\ PaybackIdle
    /\ FetchIdle
    /\ UiIdle

NextMain ==
    \/ MainAppendInvestment
    \/ MainAppendYear
    \/ MainComputeNpv
    \/ MainCallIrr
    \/ IrrNoInvestment
    \/ IrrNegativeAtZero
    \/ IrrStartSearch
    \/ IrrIterate
    \/ IrrExhausted
    \/ MainCallPayback
    \/ PaybackIterate
    \/ PaybackReturn
    \/ MainStoreKpis
    \/ MainRaised

SpecMain == InitMain /\ [][NextMain]_vars

\* C5 (as claimed): for every parameter record within the constraints, the
\* zero defaults included, the run completes and raises no arithmetic failure.
C5_NoArithmeticFailure == main_pc # "raised" /\ pb_pc # "raised"

\* C6: once the loop over the years has ended, the schedule has N + 1 periods
\* whose Year fields are 0..N in order, and the net cash flows have the same
\* length with the initial investment first; while it is built the years held
\* so far are 0, 1, 2, ... in order.
C6_ScheduleShape ==
    /\ \A i \in 1..Len(cash_flow_table) : cash_flow_table[i].Year = i - 1
    /\ main_pc \notin { "idle", "start" }
         => /\ Len(cash_flows_for_npv_irr) = Len(cash_flow_table)
            /\ cash_flows_for_npv_irr[1] = data.InitialInvestment
    /\ main_pc \notin { "idle", "start", "years" }
         => Len(cash_flow_table) = data.ProjectLifeYears + 1

\* C6 witness: a schedule of more than two years handed to NPV.
C6_Witness ==
    /\ main_pc = "npv"
    /\ data.ProjectLifeYears > 2
    /\ Len(cash_flow_table) = data.ProjectLifeYears + 1

\* ------------------------------------------------------------------------
\* Specification of the schedule and the NPV of the seed scenario and of its
\* variants.  Amounts are held in thousands: every amount of the scenario is a
\* multiple of 1000 and calculate_npv is linear in the amounts.
\* ------------------------------------------------------------------------
Seed ==
    [InitialInvestment |-> FromInt(-1000), ProjectLifeYears |-> 5,
     AnnualRevenue |-> FromInt(800), AnnualCost |-> FromInt(500),
     WACC |-> Rat(10, 100), TaxRate |-> Rat(20, 100)]

SeedVariants ==
    [InitialInvestment : { Seed.InitialInvestment, FromInt(-500), Zero },
     ProjectLifeYears : 1..Seed.ProjectLifeYears,
     AnnualRevenue : { Seed.AnnualRevenue, FromInt(600) },
     AnnualCost : { Seed.AnnualCost, FromInt(700) },
     WACC : { Seed.WACC },
     TaxRate : { Seed.TaxRate, Zero }]

InitSchedule ==
    /\ \E d \in SeedVariants : MainStarted(d)
    /\ IrrIdle
    /\ PaybackIdle
    /\ FetchIdle
    /\ UiIdle

NextSchedule ==
    \/ MainAppendInvestment
    \/ MainAppendYear
    \/ MainComputeNpv

SpecSchedule == InitSchedule /\ [][NextSchedule]_vars

SeedFlows ==
    << FromInt(-1000), FromInt(240), FromInt(240), FromInt(240), FromInt(240),
       FromInt(240) >>

\* x, an amount in thousands, is within 1 unit of tenths / 10 units
WithinOneUnit(x, tenths) ==
    /\ RLt(Rat(tenths - 10, 10000), x)
    /\ RLt(x, Rat(tenths + 10, 10000))

\* C7 (as claimed): the net cash flows of the seed scenario are
\* [-1,000,000, 240,000 x 5] and their NPV at 10% is within 1 unit of -90,079.6.
C7_SeedNpv ==
    (main_pc = "npv" /\ data = Seed)
        => /\ cash_flows_for_npv_irr = SeedFlows
           /\ WithinOneUnit(kpis.npv, -900796)

\* C7 (amended): the net cash flows of the seed scenario are
\* [-1,000,000, 240,000 x 5] and their NPV at 10% is within 1 unit of -90,211.2.
C7_SeedNpvRecomputed ==
    (main_pc = "npv" /\ data = Seed)
        => /\ cash_flows_for_npv_irr = SeedFlows
           /\ WithinOneUnit(kpis.npv, -902112)

\* C7 witness: the NPV of the seed scenario has been computed.
C7_Witness ==
    /\ main_pc = "npv"
    /\ data = Seed
    /\ kpis.npv # Zero

\* ------------------------------------------------------------------------
\* Specification of fetch_with_retry over free values of max_retries
\* ------------------------------------------------------------------------
InitFetch ==
    /\ \E limit \in 0..MaxRetriesArg : FetchCalled(limit)
    /\ UiIdle
    /\ MainIdle
    /\ IrrIdle
    /\ PaybackIdle

NextFetch ==
    \/ FetchAttemptSucceeds
    \/ FetchAttemptFails
    \/ FetchLoopEnds

SpecFetch == InitFetch /\ [][NextFetch]_vars

Failed(i) == attempts[i].kind = "raised"

\* C9: at most max_retries attempts are made; every attempt but the last made
\* has failed; the waits so far are 2^0, 2^1, ... seconds, one after each failed
\* attempt that another attempt followed or is to follow; the response of the
\* first successful attempt is returned at once; None is returned, the error
\* reported and no wait made after the last failure, once max_retries attempts
\* have failed (with max_retries = 0 nothing is attempted and nothing reported).
C9_RetryPolicy ==
    /\ Len(attempts) <= max_retries
    /\ \A i \in 1..(Len(attempts) - 1) : Failed(i)
    /\ \A i \in 1..Len(sleeps) : sleeps[i] = 2 ^ (i - 1)
    /\ fetch_pc = "loop"
         => /\ Len(sleeps) = Len(attempts)
            /\ fetch_error = ""
    /\ (fetch_pc = "returned" /\ fetch_result # None)
         => /\ fetch_result = attempts[Len(attempts)]
            /\ Len(sleeps) = Len(attempts) - 1
            /\ fetch_error = ""
    /\ (fetch_pc = "returned" /\ fetch_result = None)
         => /\ Len(attempts) = max_retries
            /\ \A i \in 1..Len(attempts) : Failed(i)
            /\ max_retries > 0
                 => /\ Len(sleeps) = max_retries - 1
                    /\ fetch_error = attempts[max_retries].exception

\* C9 witness: None returned after the default five failures, four waits made.
C9_Witness ==
    /\ fetch_pc = "returned"
    /\ fetch_result = None
    /\ max_retries = DefaultMaxRetries
    /\ sleeps = << 1, 2, 4, 8 >>
    /\ fetch_error # ""

\* ------------------------------------------------------------------------
\* Specification of the extraction handler: uploads, edits and extractions in
\* any order.  With the default max_retries the return after the loop of
\* fetch_with_retry is not reached (SpecFetch covers it).  The rest of a run
\* (SpecMain) writes st.session_state['kpis'] only.
\* ------------------------------------------------------------------------
InitApp ==
    /\ UiIdle
    /\ FetchIdle
    /\ MainIdle
    /\ IrrIdle
    /\ PaybackIdle

NextApp ==
    \/ UploadFile
    \/ EditParameter
    \/ PressExtractWithoutText
    \/ PressExtract
    \/ FetchAttemptSucceeds
    \/ FetchAttemptFails
    \/ ExtractReturns

SpecApp == InitApp /\ [][NextApp]_vars

\* C10: a run in which the button was pressed and the extraction failed, or
\* there was no readable text, leaves st.session_state['extracted_data'] as it
\* was and ends with the handler idle, so that the button can be pressed again.
C10_FailedExtractionKeepsData ==
    [][(ui_message' \in { "error", "warning" })
          => (extracted_data' = extracted_data /\ ui_pc' = "idle")]_vars

\* C10 witness: an extraction has just failed while edited parameters of an
\* earlier extraction are held.
C10_Witness ==
    /\ ui_pc = "idle"
    /\ ui_message = "error"
    /\ extracted_data # Absent
    /\ extracted_data \notin ExtractableRecords

====
